---------------------------- MODULE Spec2Model ----------------------------
(***************************************************************************)
(* los-complejos-backend: the HTTP API of main.go (gin router), the JWT    *)
(* middleware, the Complejo and Event handlers and the two MongoDB         *)
(* collections they act on.  One request is processed at a time: a request *)
(* on a protected route is first taken by AuthMiddleware and then, unless  *)
(* the chain was aborted, by the route's handler.                          *)
(***************************************************************************)
EXTENDS Integers, Sequences, FiniteSets, TLC

VARIABLES
    osEnv,      \* value of JWT_SECRET in the process environment ("" = unset)
    JWTSecret,  \* utils.JWTSecret, the HMAC key
    mainpc,     \* position of main(): "start", "serving" or "exited"
    complejos,  \* collection COMPLEJOS.complejo: documents in insertion order
    events,     \* collection COMPLEJOS.event: documents in insertion order
    c,          \* the gin.Context of the request being (or last) processed
    calc,       \* a call of CalcIMC on its own: arguments, and result once returned
    inflight,   \* the Create Complejo requests served concurrently, by goroutine
    now,        \* the time, as jwt.Parse reads it when it validates exp
    kept        \* a token that AuthMiddleware has accepted, kept by its holder, and when

vars == <<osEnv, JWTSecret, mainpc, complejos, events, c, calc, inflight, now, kept>>

(***************************************************************************)
(* Bounds.                                                                 *)
(***************************************************************************)
\* documents the two collections hold together
MaxDocs == 2

\* the last instant of the clock, which starts at 1
MaxNow == 2

\* the values uuid.NewString() returns, in the order it returns them
UuidPool == <<"u1", "u2", "u3", "u4", "u5">>

(***************************************************************************)
(* Maps (bson.M, gin.H, map[string]interface{}): functions on a finite set *)
(* of keys.                                                                *)
(***************************************************************************)
EmptyMap == [k \in {} |-> ""]

Has(m, k) == k \in DOMAIN m

Restrict(m, K) == [k \in (DOMAIN m) \cap K |-> m[k]]

Without(m, k) == [x \in (DOMAIN m) \ {k} |-> m[x]]

Override(m, p) == [k \in (DOMAIN m) \cup (DOMAIN p) |-> IF k \in DOMAIN p THEN p[k] ELSE m[k]]

\* the maps that give each key of a subset of K its value in val
MapsOver(K, val) == {Restrict(val, D) : D \in SUBSET K}

\* a Go string field decoded from a JSON object: "" when the key is absent
Field(obj, k) == IF k \in DOMAIN obj THEN obj[k] ELSE ""

(***************************************************************************)
(* JSON values of a token's claims: a string, a number or nothing.         *)
(***************************************************************************)
Str(s) == [t |-> "string", v |-> s]

Num == [t |-> "number", v |-> "7"]

Absent == [t |-> "absent", v |-> ""]

(***************************************************************************)
(* Tokens.  A token is what the Authorization header carries: whether the  *)
(* header is empty, whether the string is a well-formed JWT, the algorithm *)
(* named in its header, the key it was signed with, the time of its exp    *)
(* claim (0 when it has none), and its three claims.                       *)
(***************************************************************************)
Token(wf, alg, key, exp, role, username, id) ==
    [empty |-> FALSE, wf |-> wf, alg |-> alg, key |-> key, exp |-> exp,
     claims |-> [role |-> role, username |-> username, _id |-> id]]

NoToken ==
    [empty |-> TRUE, wf |-> FALSE, alg |-> "", key |-> "", exp |-> 0,
     claims |-> [role |-> Absent, username |-> Absent, _id |-> Absent]]

\* jwt.SigningMethodHMAC: the algorithms whose Method is *SigningMethodHMAC
HMACAlgs == {"HS256", "HS384", "HS512"}

\* the role and username claims exchanged
GenerateTokenSwapped(id, role, username) ==
    Token(TRUE, "HS256", JWTSecret, 0, Str(username), Str(role), Str(id))

\* a signing method that refuses the empty key
SignedStringNoEmptyKey(key) == [err |-> key = ""]

\* token.SignedString(key) with SigningMethodHS256: the error it returns; a
\* []byte key of any length, the empty one included, is signed with
SignedString(key) == [err |-> FALSE]

\* a token that expires at the last instant of the clock
GenerateTokenExpiring(id, role, username) ==
    Token(TRUE, "HS256", JWTSecret, MaxNow, Str(role), Str(username), Str(id))

\* GenerateToken: HS256 over the three claims, signed with JWTSecret, no exp
GenerateToken(id, role, username) ==
    Token(TRUE, "HS256", JWTSecret, 0, Str(role), Str(username), Str(id))

(***************************************************************************)
(* CalcIMC.  A number is the fraction n/d, d > 0.  strconv.ParseFloat(s,   *)
(* 32) gives the float32 nearest to the decimal the string writes (as a    *)
(* float64), or an error; the strings of the model and their values are    *)
(* tabulated.  "99.9999999" lies between the float32 neighbours            *)
(* 99.99999237060546875 and 100, nearer to 100.                            *)
(***************************************************************************)
Frac(n, d) == [n |-> n, d |-> d]

\* the strings that are decimal numbers
NumberStrings ==
    {"0", "1", "2", "18.5", "50", "70", "74", "90", "99.9999999", "100", "120", "-70"}

\* the number the string writes
Decimal(s) ==
    CASE s = "0" -> Frac(0, 1)
      [] s = "1" -> Frac(1, 1)
      [] s = "2" -> Frac(2, 1)
      [] s = "18.5" -> Frac(37, 2)
      [] s = "50" -> Frac(50, 1)
      [] s = "70" -> Frac(70, 1)
      [] s = "74" -> Frac(74, 1)
      [] s = "90" -> Frac(90, 1)
      [] s = "99.9999999" -> Frac(999999999, 10000000)
      [] s = "100" -> Frac(100, 1)
      [] s = "120" -> Frac(120, 1)
      [] s = "-70" -> Frac(-70, 1)
      [] OTHER -> Frac(0, 1)

\* the float32 nearest to the number the string writes
Float32(s) == IF s = "99.9999999" THEN Frac(100, 1) ELSE Decimal(s)

\* a parse that keeps the precision of a float64
ParseFloat64(s) == [err |-> s \notin NumberStrings, f |-> Decimal(s)]

\* strconv.ParseFloat(s, 32)
ParseFloat(s) == [err |-> s \notin NumberStrings, f |-> Float32(s)]

\* w / (h * h) < t in IEEE arithmetic: a zero h gives -Inf (w < 0), NaN
\* (w = 0) or +Inf (w > 0), and of these only -Inf compares true with "<"
Below(w, h, t) ==
    IF h.n = 0 THEN w.n < 0
    ELSE w.n * h.d * h.d * t.d < t.n * h.n * h.n * w.d

\* w / (h * h) >= t: of the results of a zero h only +Inf compares true
AtLeast(w, h, t) ==
    IF h.n = 0 THEN w.n > 0
    ELSE w.n * h.d * h.d * t.d >= t.n * h.n * h.n * w.d

CalcIMC(weight, height) ==
    IF weight = "" \/ height = "" THEN "N/A"
    ELSE IF ParseFloat(weight).err THEN "Invalid input"
    ELSE IF ParseFloat(height).err THEN "Invalid input"
    ELSE LET w == ParseFloat(weight).f
             h == ParseFloat(height).f
         IN  IF Below(w, h, Frac(37, 2)) THEN "Soldado del Burgo De Los No Muertos"
             ELSE IF AtLeast(w, h, Frac(37, 2)) /\ Below(w, h, Frac(25, 1)) THEN "NPC"
             ELSE IF AtLeast(w, h, Frac(25, 1)) /\ Below(w, h, Frac(30, 1)) THEN "Susi Slayer"
             ELSE "Burger King Slayer"

(***************************************************************************)
(* The document store.  A collection is the sequence of its documents; a   *)
(* document is a map.  A filter is a map of required field values.         *)
(***************************************************************************)
Matches(doc, filter) == \A k \in DOMAIN filter : Has(doc, k) /\ doc[k] = filter[k]

\* index of the first document the filter matches, 0 if none
FindIndex(coll, filter) ==
    IF \E i \in 1..Len(coll) : Matches(coll[i], filter)
    THEN CHOOSE i \in 1..Len(coll) :
            /\ Matches(coll[i], filter)
            /\ \A j \in 1..(i - 1) : ~Matches(coll[j], filter)
    ELSE 0

\* BSON null, the encoding of a nil []string
Null == [null |-> TRUE, arr |-> <<>>]

Array(a) == [null |-> FALSE, arr |-> a]

InSeq(x, s) == \E i \in 1..Len(s) : s[i] = x

Occurrences(x, s) == Cardinality({i \in 1..Len(s) : s[i] = x})

\* the update operators the handlers use, applied to one document;
\* err: the operator cannot be applied to the document
ApplySet(doc, patch) == [err |-> FALSE, doc |-> Override(doc, patch)]

ApplyAddToSet(doc, field, x) ==
    IF ~Has(doc, field) THEN [err |-> FALSE, doc |-> Override(doc, [k \in {field} |-> Array(<<x>>)])]
    ELSE IF doc[field].null THEN [err |-> TRUE, doc |-> doc]
    ELSE IF InSeq(x, doc[field].arr) THEN [err |-> FALSE, doc |-> doc]
    ELSE [err |-> FALSE, doc |-> [doc EXCEPT ![field] = Array(Append(doc[field].arr, x))]]

ApplyPull(doc, field, x) ==
    IF ~Has(doc, field) THEN [err |-> FALSE, doc |-> doc]
    ELSE IF doc[field].null THEN [err |-> TRUE, doc |-> doc]
    ELSE [err |-> FALSE,
          doc |-> [doc EXCEPT ![field] = Array(SelectSeq(doc[field].arr, LAMBDA y : y # x))]]

ApplyUpdate(doc, update) ==
    CASE update.op = "$set" -> ApplySet(doc, update.arg)
      [] update.op = "$addToSet" -> ApplyAddToSet(doc, update.field, update.arg)
      [] update.op = "$pull" -> ApplyPull(doc, update.field, update.arg)

\* collection.UpdateOne(filter, update): the first matching document is
\* updated; fail: the driver or the server fails the call
UpdateOne(coll, filter, update, fail) ==
    LET i == FindIndex(coll, filter)
        r == ApplyUpdate(coll[i], update)
    IN  IF fail THEN [err |-> TRUE, coll |-> coll, MatchedCount |-> 0, ModifiedCount |-> 0]
        ELSE IF i = 0 THEN [err |-> FALSE, coll |-> coll, MatchedCount |-> 0, ModifiedCount |-> 0]
        ELSE IF r.err THEN [err |-> TRUE, coll |-> coll, MatchedCount |-> 0, ModifiedCount |-> 0]
        ELSE [err |-> FALSE, coll |-> [coll EXCEPT ![i] = r.doc], MatchedCount |-> 1,
              ModifiedCount |-> IF r.doc = coll[i] THEN 0 ELSE 1]

\* collection.InsertOne(document): a duplicate _id is an error
InsertOne(coll, doc, fail) ==
    IF fail \/ FindIndex(coll, [_id |-> doc._id]) # 0
    THEN [err |-> TRUE, coll |-> coll]
    ELSE [err |-> FALSE, coll |-> Append(coll, doc)]

\* uuid.NewString(): a value no stored document has
NewString == UuidPool[Len(complejos) + Len(events) + 1]

(***************************************************************************)
(* The gin.Context of a request: the route it was matched to, the          *)
(* Authorization header, the path parameters, the number of handlers of    *)
(* the chain that have been entered, the abort flag, the keys set with     *)
(* c.Set, the body as read by ShouldBindJSON, the persistence operations   *)
(* issued and the response written with c.JSON.                            *)
(***************************************************************************)
NoBody == [read |-> FALSE, valid |-> FALSE, obj |-> EmptyMap]

Malformed == [read |-> TRUE, valid |-> FALSE, obj |-> EmptyMap]

Json(obj) == [read |-> TRUE, valid |-> TRUE, obj |-> obj]

NoResp == [http |-> 0, body |-> EmptyMap]

NewContext(route, header, params) ==
    [route |-> route, header |-> header, params |-> params, index |-> 0,
     aborted |-> FALSE, keys |-> EmptyMap, body |-> NoBody, ops |-> <<>>,
     resp |-> NoResp]

\* c.JSON(code, obj)
JSON(ctx, http, obj) == [ctx EXCEPT !.resp = [http |-> http, body |-> obj]]

\* a rejection that returns without c.Abort()
AbortForgotten(ctx) == ctx

\* c.Abort(): no pending handler of the chain is called
Abort(ctx) == [ctx EXCEPT !.aborted = TRUE]

\* c.Get(key)
Get(ctx, key) ==
    IF Has(ctx.keys, key) THEN [value |-> ctx.keys[key], exists |-> TRUE]
    ELSE [value |-> "<nil>", exists |-> FALSE]

\* c.Param(key): "" when the route has no such parameter
Param(ctx, key) == Field(ctx.params, key)

\* SetContextValues(c, values): c.Set for each pair
SetContextValues(ctx, values) == [ctx EXCEPT !.keys = Override(ctx.keys, values)]

\* the handler has read the body
Bind(ctx, body) == [ctx EXCEPT !.body = body]

\* the handler has issued a persistence operation
Issue(ctx, op) == [ctx EXCEPT !.ops = Append(ctx.ops, op)]

\* the handler of the route has run to its end
Ran(ctx) == [ctx EXCEPT !.index = ctx.index + 1]

(***************************************************************************)
(* main(): routes and chains.                                              *)
(***************************************************************************)
ProtectedRoutes ==
    {"PUT /complejo/admin", "PUT /complejo/user", "POST /event", "PUT /event/admin",
     "PUT /event/:id/subscribe", "PUT /event/:id/unsubscribe"}

OpenRoutes == {"POST /complejo", "GET /complejo", "GET /complejo/:id", "GET /event", "GET /event/:id"}

\* the handlers registered for the route
Chain(route) ==
    IF route \in ProtectedRoutes THEN <<"AuthMiddleware", route>> ELSE <<route>>

\* routes with an :id segment
HasId(route) ==
    route \in {"GET /complejo/:id", "GET /event/:id", "PUT /event/:id/subscribe",
               "PUT /event/:id/unsubscribe"}

\* no request is being processed
Idle == mainpc = "serving" /\ c.route = "none"

\* the chain of the request was aborted or has run to its end
Finished == c.route # "none" /\ (c.aborted \/ c.index = Len(Chain(c.route)))

\* the route's handler is the next of the chain
Pending(route) ==
    /\ mainpc = "serving"
    /\ c.route = route
    /\ ~c.aborted
    /\ c.index = Len(Chain(route)) - 1

(***************************************************************************)
(* AuthMiddleware.                                                         *)
(***************************************************************************)
\* a key function that does not look at the signing method
KeyFuncAnyMethod(tok) == [err |-> FALSE, key |-> JWTSecret]

\* the key function given to jwt.Parse
KeyFunc(tok) ==
    IF tok.alg \in HMACAlgs THEN [err |-> FALSE, key |-> JWTSecret]
    ELSE [err |-> TRUE, key |-> ""]

\* the validation of exp: a token that carries one is valid before that time
Expired(tok) == tok.exp # 0 /\ now >= tok.exp

\* jwt.Parse: err == nil and token.Valid
ParseValid(tok) ==
    /\ tok.wf
    /\ ~KeyFunc(tok).err
    /\ tok.key = KeyFunc(tok).key
    /\ ~Expired(tok)

\* claims[k].(string)
AsString(v) == [ok |-> v.t = "string", s |-> IF v.t = "string" THEN v.v ELSE ""]

Unauthorized(msg) == [status |-> "error", message |-> msg]

AuthMiddleware(ctx) ==
    LET tok == ctx.header
        role == AsString(tok.claims.role)
        username == AsString(tok.claims.username)
        id == AsString(tok.claims._id)
    IN  IF tok.empty
        THEN Abort(JSON(ctx, 401, Unauthorized("Authorization token is required")))
        ELSE IF ~ParseValid(tok)
        THEN Abort(JSON(ctx, 401, Unauthorized("Invalid or expired token")))
        ELSE IF ~role.ok \/ role.s = ""
        THEN Abort(JSON(ctx, 403, Unauthorized("Role is missing or invalid in the token")))
        ELSE IF ~username.ok \/ username.s = ""
        THEN Abort(JSON(ctx, 403, Unauthorized("Username is missing or invalid in the token")))
        ELSE IF ~id.ok \/ id.s = ""
        THEN Abort(JSON(ctx, 403, Unauthorized("User ID is missing or invalid in the token")))
        ELSE SetContextValues(ctx, [_id |-> id.s, username |-> username.s, role |-> role.s])

(***************************************************************************)
(* Complejo handlers.  Each takes the context, the body the request        *)
(* carries (read only if the handler reaches ShouldBindJSON) and whether   *)
(* the persistence call fails, and gives the context and the collection    *)
(* it leaves.                                                              *)
(***************************************************************************)
Envelope(status, code, message) == [status |-> status, code |-> code, message |-> message]

\* a decoding that gives every new record the role "user"
DecodeComplejoAsUser(obj) ==
    [_id |-> Field(obj, "_id"), username |-> Field(obj, "username"),
     password |-> Field(obj, "password"), role |-> "user",
     weight |-> Field(obj, "weight"), height |-> Field(obj, "height"),
     imc |-> Field(obj, "imc"), gender |-> Field(obj, "gender"),
     bench |-> Field(obj, "bench"), squad |-> Field(obj, "squad"),
     dl |-> Field(obj, "dl"), photo |-> Field(obj, "photo")]

\* ShouldBindJSON(&complejo): models.Complejo decoded from the object
DecodeComplejo(obj) ==
    [_id |-> Field(obj, "_id"), username |-> Field(obj, "username"),
     password |-> Field(obj, "password"), role |-> Field(obj, "role"),
     weight |-> Field(obj, "weight"), height |-> Field(obj, "height"),
     imc |-> Field(obj, "imc"), gender |-> Field(obj, "gender"),
     bench |-> Field(obj, "bench"), squad |-> Field(obj, "squad"),
     dl |-> Field(obj, "dl"), photo |-> Field(obj, "photo")]

CreateComplejo(ctx, body, fail) ==
    LET bound == Bind(ctx, body)
        decoded == DecodeComplejo(body.obj)
        complejo == [decoded EXCEPT !._id = NewString,
                                    !.imc = CalcIMC(decoded.weight, decoded.height)]
        op == [kind |-> "InsertOne", coll |-> "complejo", doc |-> complejo]
        ins == InsertOne(complejos, complejo, fail)
        token == GenerateToken(complejo._id, complejo.role, complejo.username)
    IN  IF ~body.valid
        THEN [c |-> JSON(bound, 400, Envelope("error", 400, "Invalid JSON format")),
              coll |-> complejos]
        ELSE IF ins.err
        THEN [c |-> JSON(Issue(bound, op), 500, Envelope("error", 500, "Failed to create Complejo")),
              coll |-> complejos]
        ELSE IF SignedString(JWTSecret).err
        THEN [c |-> JSON(Issue(bound, op), 500, Envelope("error", 500, "Failed to generate token")),
              coll |-> ins.coll]
        ELSE [c |-> JSON(Issue(bound, op), 201,
                         [status |-> "success", code |-> 201,
                          message |-> "Complejo created successfully",
                          data |-> complejo, token |-> token]),
              coll |-> ins.coll]

\* a target taken from the body of the request
TargetIdFromBody(ctx, body) == Field(body.obj, "_id")

\* the id the update handlers put in their filter: the value c.Get("_id")
\* gave, whatever the body says
TargetId(ctx, body) == Get(ctx, "_id").value

\* a handler that decodes the body before it checks the permission
BindThenCheck(forbidden, body) ==
    IF ~body.valid THEN 400 ELSE IF forbidden THEN 403 ELSE 0

\* the first two returns of CreateEvent, UpdateComplejoForUser,
\* UpdateComplejoForAdmin and UpdateEventForAdmin: the permission check, then
\* ShouldBindJSON; 0 when the handler goes on
CheckThenBind(forbidden, body) ==
    IF forbidden THEN 403 ELSE IF ~body.valid THEN 400 ELSE 0

\* the permission check of UpdateComplejoForUser: TRUE when the caller is refused
UserForbidden(ctx) ==
    \/ ~Get(ctx, "_id").exists
    \/ ~Get(ctx, "role").exists
    \/ Get(ctx, "role").value = "user"

\* an allow-list that lets the role through
AllowedFieldsAndRole == {"username", "weight", "height", "bench", "squad", "deadlift", "photo", "role"}

AllowedFields == {"username", "weight", "height", "bench", "squad", "deadlift", "photo"}

\* a patch that recomputes the imc from the weight and height it carries
FilteredUpdateRecomputing(updateData) ==
    Override(Restrict(updateData, AllowedFields),
             [imc |-> CalcIMC(Field(updateData, "weight"), Field(updateData, "height"))])

\* filteredUpdate: the allow-listed keys of the body
FilteredUpdate(updateData) == Restrict(updateData, AllowedFields)

UpdateComplejoForUser(ctx, body, fail) ==
    LET bound == Bind(ctx, body)
        id == TargetId(ctx, body)
        filteredUpdate == FilteredUpdate(body.obj)
        filter == [_id |-> id, role |-> "user"]
        update == [op |-> "$set", arg |-> filteredUpdate]
        op == [kind |-> "UpdateOne", coll |-> "complejo", filter |-> filter, update |-> update]
        result == UpdateOne(complejos, filter, update, fail)
    IN  IF CheckThenBind(UserForbidden(ctx), body) = 403
        THEN [c |-> JSON(ctx, 403, Envelope("error", 403, "You do not have permission to update this Complejo.")),
              coll |-> complejos]
        ELSE IF CheckThenBind(UserForbidden(ctx), body) = 400
        THEN [c |-> JSON(bound, 400, Envelope("error", 400, "Invalid JSON format")),
              coll |-> complejos]
        ELSE IF DOMAIN filteredUpdate = {}
        THEN [c |-> JSON(bound, 400, Envelope("error", 400, "No valid fields to update")),
              coll |-> complejos]
        ELSE IF result.err
        THEN [c |-> JSON(Issue(bound, op), 500, Envelope("error", 500, "Failed to update Complejo")),
              coll |-> complejos]
        ELSE IF result.MatchedCount = 0
        THEN [c |-> JSON(Issue(bound, op), 404,
                         Envelope("error", 404, "Complejo not found or insufficient permissions")),
              coll |-> result.coll]
        ELSE [c |-> JSON(Issue(bound, op), 200, Envelope("success", 200, "Complejo updated successfully")),
              coll |-> result.coll]

\* the permission check of UpdateComplejoForAdmin and UpdateEventForAdmin:
\*   !roleExists || role != "admin" && !idExist || id != "_id"
AdminForbidden(ctx) ==
    \/ ~Get(ctx, "role").exists
    \/ (Get(ctx, "role").value # "admin" /\ ~Get(ctx, "_id").exists)
    \/ Get(ctx, "_id").value # "_id"

\* the patch left as the body gave it
StripIdForgotten(updateData) == updateData

\* delete(updateData, "_id")
StripId(updateData) == Without(updateData, "_id")

\* the body of the two admin updates, on the collection of the route
UpdateForAdmin(ctx, body, fail, coll, name) ==
    LET bound == Bind(ctx, body)
        id == TargetId(ctx, body)
        updateData == StripId(body.obj)
        filter == [_id |-> id]
        update == [op |-> "$set", arg |-> updateData]
        op == [kind |-> "UpdateOne", coll |-> name, filter |-> filter, update |-> update]
        result == UpdateOne(coll, filter, update, fail)
    IN  IF CheckThenBind(AdminForbidden(ctx), body) = 403
        THEN [c |-> JSON(ctx, 403, Envelope("error", 403, "You do not have permission to update this Complejo.")),
              coll |-> coll]
        ELSE IF CheckThenBind(AdminForbidden(ctx), body) = 400
        THEN [c |-> JSON(bound, 400, Envelope("error", 400, "Invalid JSON format")),
              coll |-> coll]
        ELSE IF result.err
        THEN [c |-> JSON(Issue(bound, op), 500, Envelope("error", 500, "Failed to update Complejo")),
              coll |-> coll]
        ELSE IF result.MatchedCount = 0
        THEN [c |-> JSON(Issue(bound, op), 404, Envelope("error", 404, "Complejo not found")),
              coll |-> result.coll]
        ELSE [c |-> JSON(Issue(bound, op), 200, Envelope("success", 200, "Complejo updated successfully")),
              coll |-> result.coll]

UpdateComplejoForAdmin(ctx, body, fail) == UpdateForAdmin(ctx, body, fail, complejos, "complejo")

(***************************************************************************)
(* Event handlers.                                                         *)
(***************************************************************************)
\* ShouldBindJSON(&event): models.Event decoded from the object; a missing
\* participants array is a nil slice
DecodeEvent(obj) ==
    [_id |-> Field(obj, "_id"), title |-> Field(obj, "title"),
     description |-> Field(obj, "description"),
     participants |-> IF Has(obj, "participants") THEN obj.participants ELSE Null,
     date |-> Field(obj, "date"), image |-> Field(obj, "image"),
     location |-> Field(obj, "location")]

\* a permission check that refuses nobody
CreateForbiddenNever(ctx) == FALSE

\* the permission check of CreateEvent: TRUE when the caller is refused
CreateForbidden(ctx) == Get(ctx, "role").value # "admin"

CreateEvent(ctx, body, fail) ==
    LET bound == Bind(ctx, body)
        event == [DecodeEvent(body.obj) EXCEPT !._id = NewString]
        op == [kind |-> "InsertOne", coll |-> "event", doc |-> event]
        ins == InsertOne(events, event, fail)
    IN  IF ~Get(ctx, "role").exists
        THEN [c |-> JSON(ctx, 401, Envelope("error", 401, "Authorization token is missing or invalid")),
              coll |-> events]
        ELSE IF CheckThenBind(CreateForbidden(ctx), body) = 403
        THEN [c |-> JSON(ctx, 403, Envelope("error", 403, "You do not have permission to create events.")),
              coll |-> events]
        ELSE IF CheckThenBind(CreateForbidden(ctx), body) = 400
        THEN [c |-> JSON(bound, 400, Envelope("error", 400, "Invalid JSON format")),
              coll |-> events]
        ELSE IF ins.err
        THEN [c |-> JSON(Issue(bound, op), 500, Envelope("error", 500, "Failed to create event")),
              coll |-> events]
        ELSE [c |-> JSON(Issue(bound, op), 201,
                         [status |-> "success", code |-> 201,
                          message |-> "Event created successfully", data |-> event]),
              coll |-> ins.coll]

UpdateEventForAdmin(ctx, body, fail) == UpdateForAdmin(ctx, body, fail, events, "event")

\* eventID := c.Param("_id") in SubscribeEvent and UnsuscribeEvent
EventID(ctx) == Param(ctx, "_id")

\* the username check of SubscribeEvent and UnsuscribeEvent: TRUE when refused
NoUsername(ctx) == ~Get(ctx, "username").exists \/ Get(ctx, "username").value = "username"

\* the body of SubscribeEvent and UnsuscribeEvent after the update is built
Participate(ctx, fail, operator, failed, conflict, done) ==
    LET username == Get(ctx, "username").value
        filter == [_id |-> EventID(ctx)]
        update == [op |-> operator, field |-> "participants", arg |-> username]
        op == [kind |-> "UpdateOne", coll |-> "event", filter |-> filter, update |-> update]
        result == UpdateOne(events, filter, update, fail)
    IN  IF NoUsername(ctx)
        THEN [c |-> JSON(ctx, 403, Envelope("error", 403, "You do not have a valid username.")),
              coll |-> events]
        ELSE IF result.err
        THEN [c |-> JSON(Issue(ctx, op), 500, [status |-> "error", message |-> failed]),
              coll |-> events]
        ELSE IF result.MatchedCount = 0
        THEN [c |-> JSON(Issue(ctx, op), 404, [status |-> "error", message |-> "Event not found"]),
              coll |-> result.coll]
        ELSE IF result.ModifiedCount = 0
        THEN [c |-> JSON(Issue(ctx, op), 409, [status |-> "error", message |-> conflict]),
              coll |-> result.coll]
        ELSE [c |-> JSON(Issue(ctx, op), 200, [status |-> "success", message |-> done]),
              coll |-> result.coll]

SubscribeEvent(ctx, fail) ==
    Participate(ctx, fail, "$addToSet", "Failed to subscribe to the event",
                "Complejo is already subscribed to the event.",
                "Successfully subscribed to the event")

UnsuscribeEvent(ctx, fail) ==
    Participate(ctx, fail, "$pull", "Failed to unsubscribe from event",
                "Complejo is not already subscribed to the event.",
                "Successfully unsubscribed from event")

(***************************************************************************)
(* Read handlers, of either collection.                                    *)
(***************************************************************************)
\* a list handler that answers an empty collection with 200 and an empty array
GetAllEmptyArray(ctx, coll, name, fail) ==
    LET op == [kind |-> "Find", coll |-> name]
    IN  IF fail
        THEN JSON(Issue(ctx, op), 500, Envelope("error", 500, "Failed to fetch from the database"))
        ELSE JSON(Issue(ctx, op), 200,
                  [status |-> "success", code |-> 200, message |-> "retrieved successfully",
                   data |-> coll])

\* GetComplejos, GetEvents: collection.Find(bson.M{}) and cursor.All; fail: Find
\* or cursor.All returns an error
GetAll(ctx, coll, name, fail) ==
    LET op == [kind |-> "Find", coll |-> name]
    IN  IF fail
        THEN JSON(Issue(ctx, op), 500, Envelope("error", 500, "Failed to fetch from the database"))
        ELSE IF Len(coll) = 0
        THEN JSON(Issue(ctx, op), 404, Envelope("error", 404, "None found in the database"))
        ELSE JSON(Issue(ctx, op), 200,
                  [status |-> "success", code |-> 200, message |-> "retrieved successfully",
                   data |-> coll])

\* GetComplejo, GetEvent: collection.FindOne(bson.M{"_id": id})
GetOne(ctx, coll, name, fail) ==
    LET id == Param(ctx, "id")
        op == [kind |-> "FindOne", coll |-> name, filter |-> [_id |-> id]]
        i == FindIndex(coll, [_id |-> id])
    IN  IF fail
        THEN JSON(Issue(ctx, op), 500, Envelope("error", 500, "Failed to retrieve"))
        ELSE IF i = 0
        THEN JSON(Issue(ctx, op), 404, Envelope("error", 404, "not found"))
        ELSE JSON(Issue(ctx, op), 200,
                  [status |-> "success", code |-> 200, message |-> "retrieved successfully",
                   data |-> coll[i]])

(***************************************************************************)
(* The requests of the model.                                              *)
(***************************************************************************)
Roles == {"user", "admin"}

TokenIds == {"u1", "_id"}

\* the ids a request may name in its path: those of the stored documents of
\* the collection and one that no document has
ParamIds(coll) == {coll[i]._id : i \in 1..Len(coll)} \cup {"nope"}

\* the identities a well-signed token may carry
Identities ==
    {[role |-> Str(r), username |-> Str("ana"), _id |-> Str(i)] : r \in Roles, i \in TokenIds}
    \cup {[role |-> Str("user"), username |-> Str("username"), _id |-> Str("u1")]}

GoodClaims == [role |-> Str("admin"), username |-> Str("ana"), _id |-> Str("u1")]

NoClaims == [role |-> Absent, username |-> Absent, _id |-> Absent]

\* claims with one claim missing, not a string or empty
DefectClaims ==
    {[GoodClaims EXCEPT ![k] = d] : k \in {"role", "username", "_id"},
                                     d \in {Absent, Num, Str("")}} \cup {NoClaims}

WithClaims(wf, alg, key, exp, cl) == Token(wf, alg, key, exp, cl.role, cl.username, cl._id)

\* the Authorization headers a request may carry
Headers ==
    {NoToken}
    \cup {WithClaims(FALSE, "HS256", JWTSecret, 0, GoodClaims)}
    \cup {WithClaims(TRUE, a, JWTSecret, 0, cl) : a \in {"none", "RS256"}, cl \in {GoodClaims, NoClaims}}
    \cup {WithClaims(TRUE, "HS256", k, 0, cl) : k \in {"", "k1", "k2"} \ {JWTSecret},
                                                     cl \in {GoodClaims, NoClaims}}
    \cup {WithClaims(TRUE, "HS256", JWTSecret, e, GoodClaims) : e \in 1..MaxNow}
    \cup {WithClaims(TRUE, "HS512", JWTSecret, 0, cl) : cl \in {GoodClaims, NoClaims}}
    \cup {WithClaims(TRUE, "HS256", JWTSecret, 0, cl) : cl \in DefectClaims \cup Identities}
    \cup {GenerateToken(complejos[i]._id, complejos[i].role, complejos[i].username) :
             i \in 1..Len(complejos)}

ComplejoValues(r) ==
    [_id |-> "mine", imc |-> "fake", username |-> "ana", role |-> r, weight |-> "70", height |-> "2"]

ComplejoDomains ==
    {D \cup {"weight", "height"} \cup S : D \in SUBSET {"username", "role"}, S \in {{}, {"_id", "imc"}}}

ComplejoBodies ==
    {Malformed} \cup {Json(Restrict(ComplejoValues(r), D)) : r \in Roles, D \in ComplejoDomains}

\* the _id is one a stored record may have
UpdateValues == [_id |-> "u2", username |-> "bob", role |-> "admin", weight |-> "90"]

UpdateDomains == {D \cup S : D \in SUBSET {"username", "weight"}, S \in {{}, {"_id", "role"}}}

UpdateBodies == {Malformed} \cup {Json(Restrict(UpdateValues, D)) : D \in UpdateDomains}

EventValues(p) == [_id |-> "mine", title |-> "gym", participants |-> Array(p)]

EventBodies ==
    {Malformed} \cup
    {Json(m) : m \in UNION {MapsOver({"_id", "participants"}, EventValues(p)) :
                               p \in {<<>>, <<"ana">>, <<"ana", "ana">>}}}

\* the values the .env file gives JWT_SECRET ("" when it names none)
DotEnvSecrets == {"", "k2"}

\* no token has been kept
NotKept == [tok |-> NoToken, at |-> 0]

\* no call of CalcIMC on its own
NoCalc == [weight |-> "", height |-> "", imc |-> "", done |-> FALSE]

(***************************************************************************)
(* Initial state: the process has started and the package variables are    *)
(* initialised, utils.JWTSecret from the process environment.              *)
(***************************************************************************)
Init ==
    /\ osEnv \in {"", "k1"}
    /\ JWTSecret = osEnv
    /\ mainpc = "start"
    /\ complejos = <<>>
    /\ events = <<>>
    /\ c = NewContext("none", NoToken, EmptyMap)
    /\ calc = NoCalc
    /\ inflight = <<>>
    /\ now = 1
    /\ kept = NotKept

\* main() up to r.Run: godotenv.Load, which leaves a variable the environment
\* already has, then the JWT_SECRET check; found: the .env file exists
Main(found, dotenv) ==
    /\ mainpc = "start"
    /\ osEnv' = IF found /\ osEnv = "" THEN dotenv ELSE osEnv
    /\ mainpc' = IF found /\ osEnv' # "" THEN "serving" ELSE "exited"
    /\ UNCHANGED <<calc, inflight, now, kept, JWTSecret, complejos, events, c>>

\* a request on a protected route is received and AuthMiddleware runs
ServeProtected(route, header, params) ==
    /\ Idle
    /\ c' = Ran(AuthMiddleware(NewContext(route, header, params)))
    /\ UNCHANGED <<calc, inflight, now, kept, osEnv, JWTSecret, mainpc, complejos, events>>

Capacity(cs, es) == Len(cs) + Len(es) <= MaxDocs

HandleCreateComplejo(body, fail) ==
    /\ Idle
    /\ LET r == CreateComplejo(NewContext("POST /complejo", NoToken, EmptyMap), body, fail)
       IN  /\ Capacity(r.coll, events)
           /\ c' = Ran(r.c)
           /\ complejos' = r.coll
    /\ UNCHANGED <<calc, inflight, now, kept, osEnv, JWTSecret, mainpc, events>>

HandleGetComplejos(fail) ==
    /\ Idle
    /\ c' = Ran(GetAll(NewContext("GET /complejo", NoToken, EmptyMap), complejos, "complejo", fail))
    /\ UNCHANGED <<calc, inflight, now, kept, osEnv, JWTSecret, mainpc, complejos, events>>

HandleGetComplejo(id, fail) ==
    /\ Idle
    /\ c' = Ran(GetOne(NewContext("GET /complejo/:id", NoToken, [id |-> id]), complejos, "complejo", fail))
    /\ UNCHANGED <<calc, inflight, now, kept, osEnv, JWTSecret, mainpc, complejos, events>>

HandleGetEvents(fail) ==
    /\ Idle
    /\ c' = Ran(GetAll(NewContext("GET /event", NoToken, EmptyMap), events, "event", fail))
    /\ UNCHANGED <<calc, inflight, now, kept, osEnv, JWTSecret, mainpc, complejos, events>>

HandleGetEvent(id, fail) ==
    /\ Idle
    /\ c' = Ran(GetOne(NewContext("GET /event/:id", NoToken, [id |-> id]), events, "event", fail))
    /\ UNCHANGED <<calc, inflight, now, kept, osEnv, JWTSecret, mainpc, complejos, events>>

HandleUpdateComplejoForAdmin(body, fail) ==
    /\ Pending("PUT /complejo/admin")
    /\ LET r == UpdateComplejoForAdmin(c, body, fail)
       IN  /\ c' = Ran(r.c)
           /\ complejos' = r.coll
    /\ UNCHANGED <<calc, inflight, now, kept, osEnv, JWTSecret, mainpc, events>>

HandleUpdateComplejoForUser(body, fail) ==
    /\ Pending("PUT /complejo/user")
    /\ LET r == UpdateComplejoForUser(c, body, fail)
       IN  /\ c' = Ran(r.c)
           /\ complejos' = r.coll
    /\ UNCHANGED <<calc, inflight, now, kept, osEnv, JWTSecret, mainpc, events>>

HandleCreateEvent(body, fail) ==
    /\ Pending("POST /event")
    /\ LET r == CreateEvent(c, body, fail)
       IN  /\ Capacity(complejos, r.coll)
           /\ c' = Ran(r.c)
           /\ events' = r.coll
    /\ UNCHANGED <<calc, inflight, now, kept, osEnv, JWTSecret, mainpc, complejos>>

HandleUpdateEventForAdmin(body, fail) ==
    /\ Pending("PUT /event/admin")
    /\ LET r == UpdateEventForAdmin(c, body, fail)
       IN  /\ c' = Ran(r.c)
           /\ events' = r.coll
    /\ UNCHANGED <<calc, inflight, now, kept, osEnv, JWTSecret, mainpc, complejos>>

HandleSubscribeEvent(fail) ==
    /\ Pending("PUT /event/:id/subscribe")
    /\ LET r == SubscribeEvent(c, fail)
       IN  /\ c' = Ran(r.c)
           /\ events' = r.coll
    /\ UNCHANGED <<calc, inflight, now, kept, osEnv, JWTSecret, mainpc, complejos>>

HandleUnsuscribeEvent(fail) ==
    /\ Pending("PUT /event/:id/unsubscribe")
    /\ LET r == UnsuscribeEvent(c, fail)
       IN  /\ c' = Ran(r.c)
           /\ events' = r.coll
    /\ UNCHANGED <<calc, inflight, now, kept, osEnv, JWTSecret, mainpc, complejos>>

\* the response is sent and gin resets the context for the next request
Reset ==
    /\ Finished
    /\ c' = NewContext("none", NoToken, EmptyMap)
    /\ UNCHANGED <<calc, inflight, now, kept, osEnv, JWTSecret, mainpc, complejos, events>>

\* the path parameters of a request on the route
ParamsOf(route) == IF HasId(route) THEN {[id |-> p] : p \in ParamIds(events)} ELSE {EmptyMap}

Next ==
    \/ \E found \in BOOLEAN, dotenv \in DotEnvSecrets : Main(found, dotenv)
    \/ \E route \in ProtectedRoutes, header \in Headers :
          \E params \in ParamsOf(route) : ServeProtected(route, header, params)
    \/ \E body \in ComplejoBodies, fail \in BOOLEAN : HandleCreateComplejo(body, fail)
    \/ \E fail \in BOOLEAN : HandleGetComplejos(fail)
    \/ \E id \in ParamIds(complejos), fail \in BOOLEAN : HandleGetComplejo(id, fail)
    \/ \E fail \in BOOLEAN : HandleGetEvents(fail)
    \/ \E id \in ParamIds(events), fail \in BOOLEAN : HandleGetEvent(id, fail)
    \/ \E body \in UpdateBodies, fail \in BOOLEAN : HandleUpdateComplejoForAdmin(body, fail)
    \/ \E body \in UpdateBodies, fail \in BOOLEAN : HandleUpdateComplejoForUser(body, fail)
    \/ \E body \in EventBodies, fail \in BOOLEAN : HandleCreateEvent(body, fail)
    \/ \E body \in UpdateBodies, fail \in BOOLEAN : HandleUpdateEventForAdmin(body, fail)
    \/ \E fail \in BOOLEAN : HandleSubscribeEvent(fail)
    \/ \E fail \in BOOLEAN : HandleUnsuscribeEvent(fail)
    \/ Reset

Spec == Init /\ [][Next]_vars

(***************************************************************************)
(* CalcIMC on its own: a call with any pair of arguments.                  *)
(***************************************************************************)
WeightInputs ==
    {"", "abc", "0", "18.5", "50", "70", "74", "90", "99.9999999", "100", "120", "-70"}

HeightInputs == {"", "abc", "0", "1", "2"}

InitIMC ==
    /\ osEnv = ""
    /\ JWTSecret = osEnv
    /\ mainpc = "start"
    /\ complejos = <<>>
    /\ events = <<>>
    /\ c = NewContext("none", NoToken, EmptyMap)
    /\ inflight = <<>>
    /\ now = 1
    /\ kept = NotKept
    /\ \E weight \in WeightInputs, height \in HeightInputs :
          calc = [weight |-> weight, height |-> height, imc |-> "", done |-> FALSE]

\* the call returns
ReturnIMC ==
    /\ ~calc.done
    /\ calc' = [calc EXCEPT !.imc = CalcIMC(calc.weight, calc.height), !.done = TRUE]
    /\ UNCHANGED <<osEnv, JWTSecret, mainpc, complejos, events, c, inflight, now, kept>>

NextIMC == ReturnIMC

SpecIMC == InitIMC /\ [][NextIMC]_vars

(***************************************************************************)
(* Create Complejo served concurrently.  gin runs each request in its own  *)
(* goroutine; the handler keeps the decoded record in a local variable,    *)
(* and the collection is the only state the goroutines share.  A step of a *)
(* goroutine is the code up to and including one access to the collection  *)
(* or the response.                                                        *)
(***************************************************************************)
Goroutines == {1, 2}

\* the ids the goroutines other than g hold in their local records
HeldIds(g) == {inflight[h].complejo._id : h \in {k \in Goroutines \ {g} : inflight[k].pc # "bind"}}

\* an id taken from what the collections hold only
NewStringByCount(g) == NewString

\* uuid.NewString() called by goroutine g: a value that no stored document
\* and no other call has
NewStringIn(g) ==
    LET used == HeldIds(g) \cup {complejos[i]._id : i \in 1..Len(complejos)}
    IN  UuidPool[CHOOSE i \in 1..Len(UuidPool) :
                    /\ UuidPool[i] \notin used
                    /\ \A j \in 1..(i - 1) : UuidPool[j] \in used]

InitConcurrent ==
    /\ osEnv = "k1"
    /\ JWTSecret \in {"", "k1"}
    /\ mainpc = "serving"
    /\ complejos = <<>>
    /\ events = <<>>
    /\ c = NewContext("none", NoToken, EmptyMap)
    /\ calc = NoCalc
    /\ now = 1
    /\ kept = NotKept
    /\ inflight \in [Goroutines ->
           {[pc |-> "bind", body |-> b, complejo |-> DecodeComplejo(EmptyMap), fail |-> FALSE,
             resp |-> NoResp] : b \in ComplejoBodies}]

\* ShouldBindJSON, uuid.NewString and CalcIMC
CreateComplejoBind(g) ==
    LET r == inflight[g]
        decoded == DecodeComplejo(r.body.obj)
        complejo == [decoded EXCEPT !._id = NewStringIn(g),
                                    !.imc = CalcIMC(decoded.weight, decoded.height)]
    IN  /\ r.pc = "bind"
        /\ inflight' = [inflight EXCEPT ![g] =
              IF ~r.body.valid
              THEN [r EXCEPT !.pc = "done",
                             !.resp = [http |-> 400,
                                       body |-> Envelope("error", 400, "Invalid JSON format")]]
              ELSE [r EXCEPT !.pc = "insert", !.complejo = complejo]]
        /\ UNCHANGED <<osEnv, JWTSecret, mainpc, complejos, events, c, calc, now, kept>>

\* collection.InsertOne
CreateComplejoInsert(g, fail) ==
    LET r == inflight[g]
        ins == InsertOne(complejos, r.complejo, fail)
    IN  /\ r.pc = "insert"
        /\ complejos' = ins.coll
        /\ inflight' = [inflight EXCEPT ![g] =
              IF ins.err
              THEN [r EXCEPT !.pc = "done", !.fail = fail,
                             !.resp = [http |-> 500,
                                       body |-> Envelope("error", 500, "Failed to create Complejo")]]
              ELSE [r EXCEPT !.pc = "token"]]
        /\ UNCHANGED <<osEnv, JWTSecret, mainpc, events, c, calc, now, kept>>

\* GenerateToken and the 201
CreateComplejoRespond(g) ==
    LET r == inflight[g]
        token == GenerateToken(r.complejo._id, r.complejo.role, r.complejo.username)
    IN  /\ r.pc = "token"
        /\ inflight' = [inflight EXCEPT ![g] =
              IF SignedString(JWTSecret).err
              THEN [r EXCEPT !.pc = "done",
                             !.resp = [http |-> 500,
                                       body |-> Envelope("error", 500, "Failed to generate token")]]
              ELSE [r EXCEPT !.pc = "done",
                             !.resp = [http |-> 201,
                                       body |-> [status |-> "success", code |-> 201,
                                                 message |-> "Complejo created successfully",
                                                 data |-> r.complejo, token |-> token]]]]
        /\ UNCHANGED <<osEnv, JWTSecret, mainpc, complejos, events, c, calc, now, kept>>

NextConcurrent ==
    \/ \E g \in Goroutines : CreateComplejoBind(g)
    \/ \E g \in Goroutines, fail \in BOOLEAN : CreateComplejoInsert(g, fail)
    \/ \E g \in Goroutines : CreateComplejoRespond(g)

SpecConcurrent == InitConcurrent /\ [][NextConcurrent]_vars

(***************************************************************************)
(* Tokens over time: the server is serving, time passes between requests,  *)
(* and the holder of a token that AuthMiddleware accepted keeps it and     *)
(* sends it again; in between, records are created and updated.            *)
(***************************************************************************)
InitTokens ==
    /\ \E secret \in {"k1", "k2"} :
          /\ osEnv = secret
          /\ JWTSecret = IF secret = "k1" THEN "k1" ELSE ""
    /\ mainpc = "serving"
    /\ complejos = <<>>
    /\ events = <<>>
    /\ c = NewContext("none", NoToken, EmptyMap)
    /\ calc = NoCalc
    /\ inflight = <<>>
    /\ now = 1
    /\ kept = NotKept

Tick ==
    /\ Idle
    /\ now < MaxNow
    /\ now' = now + 1
    /\ UNCHANGED <<osEnv, JWTSecret, mainpc, complejos, events, c, calc, inflight, kept>>

\* the token of the request AuthMiddleware has just let through is kept, when
\* it is one GenerateToken issues for its claims
Keep ==
    /\ c.route \in ProtectedRoutes
    /\ c.index = 1
    /\ ~c.aborted
    /\ kept = NotKept
    /\ c.header = GenerateToken(c.keys._id, c.keys.role, c.keys.username)
    /\ kept' = [tok |-> c.header, at |-> now]
    /\ UNCHANGED <<osEnv, JWTSecret, mainpc, complejos, events, c, calc, inflight, now>>

NextTokens ==
    \/ Tick
    \/ Keep
    \/ \E header \in Headers : ServeProtected("PUT /complejo/user", header, EmptyMap)
    \/ \E body \in ComplejoBodies, fail \in BOOLEAN : HandleCreateComplejo(body, fail)
    \/ \E body \in UpdateBodies, fail \in BOOLEAN : HandleUpdateComplejoForUser(body, fail)
    \/ Reset

SpecTokens == InitTokens /\ [][NextTokens]_vars

(***************************************************************************)
(* Properties.                                                             *)
(***************************************************************************)
\* AuthMiddleware has run on the request in c
Authenticated == c.route \in ProtectedRoutes /\ c.index >= 1

\* the route's handler has run on the request in c
Handled(route) == c.route = route /\ c.index = Len(Chain(route))

\* this step is the run of the route's handler
HandlerStep(route) ==
    /\ c'.route = route
    /\ c'.index = Len(Chain(route))
    /\ IF route \in ProtectedRoutes THEN Pending(route) ELSE Idle

\* the header carries no token a verifier holding JWTSecret can accept
\* whatever its claims: empty, malformed, not an HMAC algorithm, other key
StructurallyInvalid(tok) ==
    tok.empty \/ ~tok.wf \/ tok.alg \notin {"HS256", "HS384", "HS512"} \/ tok.key # JWTSecret

\* the claim is missing, not a string or empty
Defective(tok, k) == tok.claims[k].t # "string" \/ tok.claims[k].v = ""

AnyDefective(tok) == \E k \in {"role", "username", "_id"} : Defective(tok, k)

\* C1: AuthMiddleware answers 401 to an empty header and to a malformed,
\* otherwise-signed or non-HMAC token whatever its claims are, and answers 403
\* only to a token that passed these checks and has a missing, non-string or
\* empty role, username or _id claim (and to every such unexpired token).
C1_RejectionOrder ==
    Authenticated =>
        /\ StructurallyInvalid(c.header) => c.aborted /\ c.resp.http = 401
        /\ (c.aborted /\ c.resp.http = 403) =>
               ~StructurallyInvalid(c.header) /\ AnyDefective(c.header)
        /\ (~StructurallyInvalid(c.header) /\ ~Expired(c.header) /\ AnyDefective(c.header)) =>
               c.aborted /\ c.resp.http = 403
        /\ c.aborted => c.resp.http \in {401, 403}

\* a token with algorithm "none" and no claims at all was answered 401
C1_Witness ==
    /\ Authenticated
    /\ c.header.alg = "none"
    /\ c.header.claims.role = Absent
    /\ c.resp.http = 401


\* C2: behind AuthMiddleware a handler runs only if the middleware passed the
\* request through.  A rejection (a response written by the middleware)
\* aborts the chain, and an aborted request never has its handler run, its
\* body read or a persistence operation issued; a request whose handler ran
\* has _id, username and role in its context, non-empty strings equal to the
\* claims of its token.
C2_HandlerIffPassed ==
    c.route \in ProtectedRoutes =>
        /\ (c.index = 1 /\ c.resp.http # 0) => c.aborted
        /\ c.aborted => c.index = 1 /\ c.ops = <<>> /\ ~c.body.read
        /\ (c.index >= 1 /\ ~c.aborted) =>
               /\ DOMAIN c.keys = {"_id", "username", "role"}
               /\ \A k \in {"_id", "username", "role"} :
                     /\ c.header.claims[k].t = "string"
                     /\ c.keys[k] = c.header.claims[k].v
                     /\ c.keys[k] # ""
        /\ c.index = 2 => ~c.aborted

\* a protected handler ran and issued a persistence operation
C2_Witness == c.route \in ProtectedRoutes /\ c.index = 2 /\ Len(c.ops) = 1

\* the ids of the documents of both collections
StoredIds ==
    {complejos[i]._id : i \in 1..Len(complejos)} \cup {events[i]._id : i \in 1..Len(events)}

\* the event the path of the request in c names, 0 if there is none
NamedEvent == FindIndex(events, [_id |-> c.params.id])

\* C3: a subscribe request of an authenticated caller on the id of an
\* existing event returns 200 and adds the caller's username once when the
\* username is not among the participants, and returns 409 and changes
\* nothing when it is (so two successive requests return 200 then 409 and
\* leave the username once); the persistence call is taken not to fail, and
\* the caller's username not to be the literal "username".
C3_SubscribeTwice ==
    [][(/\ HandlerStep("PUT /event/:id/subscribe")
        /\ NamedEvent # 0
        /\ c'.resp.http # 500
        /\ c.keys.username # "username") =>
          IF ~InSeq(c.keys.username, events[NamedEvent].participants.arr)
          THEN /\ c'.resp.http = 200
               /\ Occurrences(c.keys.username, events'[NamedEvent].participants.arr) = 1
          ELSE /\ c'.resp.http = 409
               /\ events' = events]_vars

\* C4: an unsubscribe request of an authenticated caller on the id of an
\* existing event whose participants do not contain the caller's username
\* returns 409 and leaves the participants as they are; the persistence call
\* is taken not to fail, and the caller's username not to be the literal
\* "username".
C4_UnsubscribeNonParticipant ==
    [][(/\ HandlerStep("PUT /event/:id/unsubscribe")
        /\ NamedEvent # 0
        /\ c'.resp.http # 500
        /\ c.keys.username # "username"
        /\ ~InSeq(c.keys.username, events[NamedEvent].participants.arr)) =>
          (c'.resp.http = 409 /\ events' = events)]_vars

\* C5: Create Complejo with a well-formed body whose insert succeeds returns
\* 201 and appends exactly one record, under an id no stored document and
\* not the body has, with the imc computed from the body's weight and height;
\* the token returned verifies and its _id, role and username claims are the
\* stored record's.
C5_CreateComplejo ==
    [][(HandlerStep("POST /complejo") /\ c'.body.valid /\ c'.resp.http # 500) =>
          LET stored == complejos'[Len(complejos')]
              token == c'.resp.body.token
          IN  /\ c'.resp.http = 201
              /\ Len(complejos') = Len(complejos) + 1
              /\ SubSeq(complejos', 1, Len(complejos)) = complejos
              /\ stored._id \notin StoredIds
              /\ stored._id # Field(c'.body.obj, "_id")
              /\ stored.imc = CalcIMC(Field(c'.body.obj, "weight"), Field(c'.body.obj, "height"))
              /\ stored.username = Field(c'.body.obj, "username")
              /\ stored.role = Field(c'.body.obj, "role")
              /\ c'.resp.body.data = stored
              /\ ~StructurallyInvalid(token)
              /\ token.claims = [_id |-> Str(stored._id), role |-> Str(stored.role),
                                 username |-> Str(stored.username)]]_vars

\* a record was created from a body that carried an _id and an imc of its own
C5_Witness ==
    /\ Handled("POST /complejo")
    /\ c.resp.http = 201
    /\ Has(c.body.obj, "_id")
    /\ Has(c.body.obj, "imc")
    /\ Has(c.body.obj, "role")

\* C6: PUT /complejo/user refuses (403) exactly the callers whose role is not
\* "user"; a caller whose role is "user" is let through to the update.
C6_UserRoleMayUpdate ==
    Handled("PUT /complejo/user") =>
        /\ c.keys.role = "user" => c.resp.http # 403
        /\ c.keys.role # "user" => c.resp.http = 403

\* C7: PUT /complejo/admin and PUT /event/admin let every caller whose role is
\* "admin" through to the update operation and answer 403, with no update
\* issued, to every caller whose role is not "admin".
C7_AdminRoleMayUpdate ==
    (Handled("PUT /complejo/admin") \/ Handled("PUT /event/admin")) =>
        /\ c.keys.role = "admin" => (c.resp.http # 403 /\ (c.body.valid => Len(c.ops) = 1))
        /\ c.keys.role # "admin" => (c.resp.http = 403 /\ c.ops = <<>>)

\* C8: POST /event answers 403 and inserts nothing for a caller whose role is
\* not "admin"; for an admin with a well-formed body whose insert succeeds it
\* answers 201 and appends exactly one event under an id no stored document
\* and not the body has; and the event collection grows in no other step.
C8_CreateEventAdminOnly ==
    [][/\ HandlerStep("POST /event") =>
            /\ c.keys.role # "admin" =>
                  (c'.resp.http = 403 /\ events' = events /\ c'.ops = <<>>)
            /\ (c.keys.role = "admin" /\ c'.body.valid /\ c'.resp.http # 500) =>
                  /\ c'.resp.http = 201
                  /\ Len(events') = Len(events) + 1
                  /\ SubSeq(events', 1, Len(events)) = events
                  /\ events'[Len(events')]._id \notin StoredIds
                  /\ events'[Len(events')]._id # Field(c'.body.obj, "_id")
       /\ Len(events') # Len(events) =>
            (HandlerStep("POST /event") /\ c.keys.role = "admin")]_vars

\* an admin created an event
C8_Witness ==
    /\ Handled("POST /event")
    /\ c.keys.role = "admin"
    /\ c.resp.http = 201
    /\ Len(events) >= 1

\* C9: when UpdateComplejoForUser has read a well-formed body, the $set patch
\* it sends is the body restricted to the keys username, weight, height,
\* bench, squad, deadlift and photo; if the body has none of them the answer
\* is 400 and no update operation is issued.
C9_AllowList ==
    (Handled("PUT /complejo/user") /\ c.body.read /\ c.body.valid) =>
        LET keys == (DOMAIN c.body.obj) \cap
                        {"username", "weight", "height", "bench", "squad", "deadlift", "photo"}
        IN  IF keys = {}
            THEN c.resp.http = 400 /\ c.ops = <<>>
            ELSE /\ Len(c.ops) = 1
                 /\ c.ops[1].kind = "UpdateOne"
                 /\ c.ops[1].update.op = "$set"
                 /\ DOMAIN c.ops[1].update.arg = keys
                 /\ \A k \in keys : c.ops[1].update.arg[k] = c.body.obj[k]
                 /\ c.resp.http \in {200, 404, 500}

\* a body with an allow-listed key and keys outside the list was sent on
C9_Witness ==
    /\ Handled("PUT /complejo/user")
    /\ DOMAIN c.body.obj = {"weight", "role", "_id"}
    /\ Len(c.ops) = 1

\* C10: no step changes the _id of a stored Complejo or Event or removes a
\* record, and no $set patch sent to the store carries an "_id".
C10_IdImmutable ==
    [][/\ Len(complejos') >= Len(complejos)
       /\ \A i \in 1..Len(complejos) : complejos'[i]._id = complejos[i]._id
       /\ Len(events') >= Len(events)
       /\ \A i \in 1..Len(events) : events'[i]._id = events[i]._id
       /\ \A j \in 1..Len(c'.ops) :
             (c'.ops[j].kind = "UpdateOne" /\ c'.ops[j].update.op = "$set") =>
                 ~Has(c'.ops[j].update.arg, "_id")]_vars

\* an admin update whose body carried an "_id" reached the store
C10_Witness ==
    /\ Handled("PUT /complejo/admin")
    /\ Has(c.body.obj, "_id")
    /\ Len(c.ops) = 1

\* the collection a list route reads
Listed(route) == IF route = "GET /complejo" THEN complejos ELSE events

\* C11: GET /complejo and GET /event answer an empty collection with 404, an
\* error envelope that has no data, and answer 200 only when the collection
\* has a document, with all its documents as data; the only other answer is
\* the 500 of a failing query.
C11_EmptyListIs404 ==
    \A route \in {"GET /complejo", "GET /event"} :
        Handled(route) =>
            /\ c.resp.http \in {200, 404, 500}
            /\ (Len(Listed(route)) = 0 /\ c.resp.http # 500) =>
                   /\ c.resp.http = 404
                   /\ c.resp.body.status = "error"
                   /\ ~Has(c.resp.body, "data")
            /\ c.resp.http = 200 =>
                   /\ Len(Listed(route)) >= 1
                   /\ c.resp.body.status = "success"
                   /\ c.resp.body.data = Listed(route)
            /\ c.resp.http = 404 => Len(Listed(route)) = 0

\* the events were listed while empty, the complejos not being empty
C11_Witness ==
    /\ Handled("GET /event")
    /\ c.resp.http = 404
    /\ Len(events) = 0
    /\ Len(complejos) >= 1

\* C12: every response written, by AuthMiddleware or by a handler, carries a
\* status that is "success" or "error", a code equal to the HTTP status, and
\* a message.
C12_UniformEnvelope ==
    c.resp.http # 0 =>
        /\ {"status", "code", "message"} \subseteq DOMAIN c.resp.body
        /\ c.resp.body.status \in {"success", "error"}
        /\ c.resp.body.code = c.resp.http

\* C13: a step that writes an error response (4xx or 5xx), in AuthMiddleware
\* or in a handler, leaves both collections as they were; a failing store
\* call is taken to have stored nothing.
C13_NoPartialSuccess ==
    [][(c'.resp.http >= 400 /\ c'.resp # c.resp) =>
          (complejos' = complejos /\ events' = events)]_vars

\* Create Complejo ended with an error after it issued its insert
C13_Witness ==
    /\ Handled("POST /complejo")
    /\ c.resp.http = 500
    /\ Len(c.ops) = 1

\* the band of the quotient w / h^2 of two numbers: below 18.5, from 18.5 to
\* below 25, from 25 to below 30, anything else; the quotient by zero is
\* below every bound when w is negative and in no band otherwise
BandOf(w, h) ==
    LET x == w.n * h.d * h.d
        y == h.n * h.n * w.d
    IN  IF y = 0 THEN (IF x < 0 THEN 1 ELSE 4)
        ELSE IF 2 * x < 37 * y THEN 1
        ELSE IF x < 25 * y THEN 2
        ELSE IF x < 30 * y THEN 3
        ELSE 4

CategoryName(k) ==
    <<"Soldado del Burgo De Los No Muertos", "NPC", "Susi Slayer", "Burger King Slayer">>[k]

\* the classifier the claim describes, on the values val gives the strings
Classified(weight, height, val(_)) ==
    IF weight = "" \/ height = "" THEN "N/A"
    ELSE IF weight \notin NumberStrings \/ height \notin NumberStrings THEN "Invalid input"
    ELSE CategoryName(BandOf(val(weight), val(height)))

\* C14 as stated: for every pair of arguments CalcIMC returns "N/A" if either
\* is empty, else "Invalid input" if either is not a number, else the name of
\* the band of weight / height^2, weight and height being the numbers the
\* strings write.
C14_EqualsReference ==
    calc.done => calc.imc = Classified(calc.weight, calc.height, Decimal)

\* C14 as amended: the same, the band being that of the quotient of the
\* float32 values nearest to the numbers the strings write.
C14_Float32Bands ==
    calc.done => calc.imc = Classified(calc.weight, calc.height, Float32)

\* a weight that rounds up to a band's lower bound was classified
C14_Witness ==
    /\ calc.done
    /\ calc.weight = "99.9999999"
    /\ calc.height = "2"
    /\ calc.imc = "Susi Slayer"

\* the stored imc of the record is not CalcIMC of its stored weight and height
Stale(doc) == doc.imc # CalcIMC(doc.weight, doc.height)

\* C15: a record is inserted with the imc CalcIMC gives for its weight and
\* height, and no step changes the imc of a stored record, whatever it does
\* to the weight and the height.
C15_ImcFixedAtCreation ==
    [][/\ Len(complejos') >= Len(complejos)
       /\ \A i \in 1..Len(complejos) : complejos'[i].imc = complejos[i].imc
       /\ \A i \in (Len(complejos) + 1)..Len(complejos') : ~Stale(complejos'[i])]_vars

\* a user update changed the weight of a record, whose imc is now stale
C15_Witness ==
    /\ Handled("PUT /complejo/user")
    /\ c.resp.http = 200
    /\ Has(c.body.obj, "weight")
    /\ \E i \in 1..Len(complejos) :
          /\ complejos[i]._id = c.keys._id
          /\ complejos[i].weight = c.body.obj.weight
          /\ Stale(complejos[i])

\* C16: when two Create Complejo requests with well-formed bodies carrying
\* the same username have both been answered, in whatever order their steps
\* were taken, and no insert was failed by the store, both answers are 201
\* and the collection holds their two records, with that username and two
\* different ids.
C16_ConcurrentCreates ==
    (/\ \A g \in Goroutines : inflight[g].pc = "done" /\ inflight[g].body.valid /\ ~inflight[g].fail
     /\ Field(inflight[1].body.obj, "username") = Field(inflight[2].body.obj, "username")) =>
        /\ \A g \in Goroutines : inflight[g].resp.http = 201
        /\ Len(complejos) = 2
        /\ complejos[1]._id # complejos[2]._id
        /\ \A i \in 1..2 : complejos[i].username = Field(inflight[1].body.obj, "username")
        /\ {complejos[1], complejos[2]} = {inflight[g].resp.body.data : g \in Goroutines}

\* both requests carried the username "ana" and both were answered 201, the
\* one that took its id second having inserted first
C16_Witness ==
    /\ \A g \in Goroutines :
          /\ inflight[g].pc = "done"
          /\ inflight[g].resp.http = 201
          /\ Field(inflight[g].body.obj, "username") = "ana"
    /\ complejos[1]._id = "u2"

\* C17: a token that AuthMiddleware accepted, of those GenerateToken issues,
\* is accepted on every later request, whatever time has passed and whatever
\* was created or updated in between, and the identity the context gets is
\* the token's claims; the secret never changes while the process runs.
C17_AcceptedForever ==
    /\ (Authenticated /\ kept # NotKept /\ c.header = kept.tok) =>
          /\ ~c.aborted
          /\ c.keys = [_id |-> kept.tok.claims._id.v,
                       username |-> kept.tok.claims.username.v,
                       role |-> kept.tok.claims.role.v]
    /\ kept # NotKept => kept.tok.key = JWTSecret

\* the token issued for a record was accepted again at a later time, after
\* the username of the record had been changed
C17_Witness ==
    /\ Authenticated
    /\ c.header = kept.tok
    /\ ~c.aborted
    /\ kept.at < now
    /\ kept.tok.claims.role.v = "user"
    /\ kept.tok.claims.username.v = "ana"
    /\ \E i \in 1..Len(complejos) :
          /\ complejos[i]._id = kept.tok.claims._id.v
          /\ complejos[i].username = "bob"

\* C18: in no reachable state does the participants list of a stored event
\* contain a username twice.
C18_ParticipantsIsSet ==
    \A i \in 1..Len(events) :
        \A j, k \in 1..Len(events[i].participants.arr) :
            events[i].participants.arr[j] = events[i].participants.arr[k] => j = k

\* C19: whenever the server is serving requests, main having loaded .env and
\* found JWT_SECRET not empty, the key GenerateToken signs with and
\* AuthMiddleware verifies with is that JWT_SECRET.
C19_SecretIsConfigured ==
    mainpc = "serving" => (osEnv # "" /\ JWTSecret = osEnv)

\* C20: a request that carries the token Create Complejo returned for a
\* stored record, whatever well-formed body the record was created from, is
\* let through by AuthMiddleware with the record's id, username and role.
C20_IssuedTokenAccepted ==
    \A i \in 1..Len(complejos) :
        (/\ Authenticated
         /\ c.header = GenerateToken(complejos[i]._id, complejos[i].role, complejos[i].username)) =>
            /\ ~c.aborted
            /\ c.keys = [_id |-> complejos[i]._id, username |-> complejos[i].username,
                         role |-> complejos[i].role]

IssuedToAdmin(tok) ==
    \E i \in 1..Len(complejos) :
        /\ complejos[i].role = "admin"
        /\ tok = GenerateToken(complejos[i]._id, "admin", complejos[i].username)

\* C22: POST /complejo needs no token and, for a body with the role "admin"
\* and a username, returns a token that AuthMiddleware lets through and that
\* passes the permission check of Create Event; and POST /event with the
\* token returned for such a record and a well-formed body inserts an event
\* (the insert not being failed by the store).
C22_SelfServiceAdmin ==
    [][/\ (/\ HandlerStep("POST /complejo")
            /\ c'.header = NoToken
            /\ c'.resp.http = 201
            /\ Field(c'.body.obj, "role") = "admin"
            /\ Field(c'.body.obj, "username") # "") =>
              LET ctx == AuthMiddleware(NewContext("POST /event", c'.resp.body.token, EmptyMap))
              IN  ~ctx.aborted /\ ~CreateForbidden(ctx)
       /\ (/\ HandlerStep("POST /event")
            /\ IssuedToAdmin(c.header)
            /\ c'.body.valid
            /\ c'.resp.http # 500) =>
              /\ c'.resp.http = 201
              /\ Len(events') = Len(events) + 1]_vars

\* an event was inserted by a request carrying the token returned for a
\* record created with the role "admin"
C22_Witness ==
    /\ Handled("POST /event")
    /\ c.resp.http = 201
    /\ IssuedToAdmin(c.header)
    /\ Len(events) = 1

\* the routes whose handler checks a permission and decodes a body
CheckedRoutes == {"POST /event", "PUT /complejo/user", "PUT /complejo/admin", "PUT /event/admin"}

\* the permission check of the route's handler refuses the caller of ctx
Refused(ctx) ==
    CASE ctx.route = "POST /event" -> CreateForbidden(ctx)
      [] ctx.route = "PUT /complejo/user" -> UserForbidden(ctx)
      [] ctx.route \in {"PUT /complejo/admin", "PUT /event/admin"} -> AdminForbidden(ctx)
      [] OTHER -> FALSE

\* the responses the route's handler gives the context, one for each body a
\* request may carry, the store failing or not
Responses(ctx) ==
    CASE ctx.route = "POST /event" ->
           {CreateEvent(ctx, b, f).c.resp.http : b \in EventBodies, f \in BOOLEAN}
      [] ctx.route = "PUT /complejo/user" ->
           {UpdateComplejoForUser(ctx, b, f).c.resp.http : b \in UpdateBodies, f \in BOOLEAN}
      [] ctx.route = "PUT /complejo/admin" ->
           {UpdateComplejoForAdmin(ctx, b, f).c.resp.http : b \in UpdateBodies, f \in BOOLEAN}
      [] ctx.route = "PUT /event/admin" ->
           {UpdateEventForAdmin(ctx, b, f).c.resp.http : b \in UpdateBodies, f \in BOOLEAN}
      [] OTHER -> {}

\* C23: in Create Event, Update Complejo (user), Update Complejo (admin) and
\* Update Event (admin) a caller the permission check refuses gets 403 for
\* every body, the malformed one included, the body is not read and nothing
\* is stored; 400 goes only to callers the check let through, whose body was
\* read.
C23_PermissionBeforeBody ==
    [][\A route \in CheckedRoutes :
          HandlerStep(route) =>
              /\ Refused(c) =>
                    /\ Malformed \in EventBodies \cap UpdateBodies
                    /\ Responses(c) = {403}
                    /\ c'.resp.http = 403
                    /\ c'.body = NoBody
                    /\ c'.ops = <<>>
                    /\ UNCHANGED <<complejos, events>>
              /\ c'.resp.http = 400 => ~Refused(c) /\ c'.body.read]_vars

\* a caller with the role "user" was refused by Update Complejo (user) and
\* its body was left unread
C23_Witness ==
    /\ Handled("PUT /complejo/user")
    /\ Get(c, "role").value = "user"
    /\ Refused(c)
    /\ c.resp.http = 403
    /\ c.body = NoBody

=============================================================================
